---- MODULE Spec2Model ----
(***************************************************************************)
(* Model of ppg_demo_app.py: the aphid counter (count_aphids_demo), the    *)
(* advisor (generate_advice) and the orchestration entry point (infer).    *)
(*                                                                         *)
(* Representation.                                                         *)
(*  - Optional values: None is the empty tuple, a present value x is <<x>>.*)
(*  - A path string is the tuple of its components between separators, so  *)
(*    "" is <<"">>, "a/b.jpg" is <<"a", "b.jpg">> and "a/" is <<"a", "">>. *)
(*  - Python floats are modelled as exact rationals.  A leaf area is an    *)
(*    integer number of 1e-6 cm2 (so 1e-6 is the integer 1), a density is  *)
(*    a reduced fraction <<numerator, denominator>> in aphids per cm2.     *)
(*  - A formatted number is the record of its printed digits.              *)
(*  - A text is a tuple of pieces; the empty string is the empty tuple.    *)
(*    The dashes and the superscript 2 of the literals are written in      *)
(*    ASCII.                                                               *)
(***************************************************************************)
EXTENDS Integers, Sequences, FiniteSets, TLC

VARIABLES call, ret, invoked

vars == <<call, ret, invoked>>

----------------------------------------------------------------------------
(* Optional values and builtins *)

None == <<>>

Some(x) == <<x>>

Max(a, b) == IF a >= b THEN a ELSE b

Abs(a) == IF a < 0 THEN -a ELSE a

RECURSIVE GCD(_, _)
GCD(a, b) == IF b = 0 THEN a ELSE GCD(b, a % b)

(* truthiness of an Optional[str]: None and "" are falsy *)
TruthyStr(s) == s # None /\ s # <<"">>

(* os.path.basename: the component after the last separator *)
basename(p) == p[Len(p)]

----------------------------------------------------------------------------
(* Exact rational arithmetic standing for float arithmetic *)

(* number of 1e-6 cm2 units in one cm2 *)
Scale == 10^6

(* 1e-6 cm2, in area units *)
EPS == 1

(* 100.0 cm2, in area units *)
DEFAULT_AREA == 100 * Scale

(* the fraction n/d in lowest terms, n >= 0, d > 0 *)
Rat(n, d) == LET g == GCD(n, d) IN <<n \div g, d \div g>>

(* x < y on fractions: integer parts first, then the remainders, so that no
   product leaves the machine integers of the checker *)
LessQ(x, y) ==
    LET qx == x[1] \div x[2]
        qy == y[1] \div y[2]
    IN  IF qx # qy THEN qx < qy
        ELSE (x[1] % x[2]) * y[2] < (y[1] % y[2]) * x[2]

LeqQ(x, y) == ~LessQ(y, x)

(* count / area for an int count and a float area > 0 *)
Divide(count, area) == Rat(count * Scale, area)

(* f"{x:.2f}" of a non-negative fraction: round to nearest hundredth, ties
   to even *)
FormatF2(x) ==
    LET q   == x[1] \div x[2]
        r   == x[1] % x[2]
        h   == (r * 100) \div x[2]
        rr  == (r * 100) % x[2]
        up  == 2 * rr > x[2] \/ (2 * rr = x[2] /\ h % 2 = 1)
        h2  == IF up THEN h + 1 ELSE h
    IN  IF h2 = 100 THEN [int |-> q + 1, frac |-> 0]
        ELSE [int |-> q, frac |-> h2]

(* f"{a:.1f}" of an area: sign, integer digits, one decimal, ties to even *)
FormatF1(a) ==
    LET m   == Abs(a)
        u   == Scale \div 10
        t   == m \div u
        rr  == m % u
        up  == 2 * rr > u \/ (2 * rr = u /\ t % 2 = 1)
        t2  == IF up THEN t + 1 ELSE t
    IN  [neg |-> a < 0, int |-> t2 \div 10, frac |-> t2 % 10]

----------------------------------------------------------------------------
(* Counter *)

USE_QWEN == FALSE

DEMO_COUNTS ==
    ("RW S (15).jpg" :> 15) @@ ("RW S (18).jpg" :> 15) @@
    ("RW S (19).jpg" :> 15) @@ ("RW S (10).jpg" :> 10) @@
    ("RW S (24).jpg" :> 10) @@ ("RW_S_24.jpg" :> 10)

(* the manual-override test is done after the table lookup *)
count_aphids_demo_lookup_first(img, original_filename, manual_override) ==
    IF TruthyStr(original_filename)
       /\ basename(original_filename) \in DOMAIN DEMO_COUNTS
    THEN DEMO_COUNTS[basename(original_filename)]
    ELSE IF manual_override # None THEN Max(0, manual_override[1])
    ELSE Max(0, (img.size[1] * img.size[2]) \div (512 * 512))

(* the table is consulted with the last component only when the name has
   no directory part *)
count_aphids_demo_no_basename(img, original_filename, manual_override) ==
    IF manual_override # None THEN Max(0, manual_override[1])
    ELSE IF TruthyStr(original_filename)
            /\ Len(original_filename) = 1
            /\ original_filename[1] \in DOMAIN DEMO_COUNTS
    THEN DEMO_COUNTS[original_filename[1]]
    ELSE Max(0, (img.size[1] * img.size[2]) \div (512 * 512))

(* the fallback divides by 512 instead of 512 * 512 *)
count_aphids_demo_wrong_divisor(img, original_filename, manual_override) ==
    IF manual_override # None THEN Max(0, manual_override[1])
    ELSE IF TruthyStr(original_filename)
            /\ basename(original_filename) \in DOMAIN DEMO_COUNTS
    THEN DEMO_COUNTS[basename(original_filename)]
    ELSE Max(0, (img.size[1] * img.size[2]) \div 512)

count_aphids_demo(img, original_filename, manual_override) ==
    IF manual_override # None THEN Max(0, manual_override[1])
    ELSE IF TruthyStr(original_filename)
            /\ basename(original_filename) \in DOMAIN DEMO_COUNTS
    THEN DEMO_COUNTS[basename(original_filename)]
    ELSE Max(0, (img.size[1] * img.size[2]) \div (512 * 512))

----------------------------------------------------------------------------
(* Advisor *)

T_MODERATE == <<1, 10>>

T_HIGH == <<1, 2>>

T_SEVERE == <<3, 2>>

(* lines 47-48: area = max(leaf_area_cm2, 1e-6); density = aphid_count / area *)
advice_density(aphid_count, leaf_area_cm2) ==
    Divide(aphid_count, Max(leaf_area_cm2, EPS))

(* the thresholds are compared with <= instead of < *)
severity_of_closed(density) ==
    IF LeqQ(density, T_MODERATE) THEN "Low"
    ELSE IF LeqQ(density, T_HIGH) THEN "Moderate"
    ELSE IF LeqQ(density, T_SEVERE) THEN "High"
    ELSE "Severe"

(* lines 50-69: the if/elif chain over the density *)
severity_of(density) ==
    IF LessQ(density, T_MODERATE) THEN "Low"
    ELSE IF LessQ(density, T_HIGH) THEN "Moderate"
    ELSE IF LessQ(density, T_SEVERE) THEN "High"
    ELSE "Severe"

(* the tier's recommendation, the fixed tail of the advice template *)
advice_action(severity) ==
    CASE severity = "Low" ->
           "Monitor only. Re-scout in 3-5 days; no spray required. Consider introducing/monitoring beneficials (lady beetles, lacewings)."
      [] severity = "Moderate" ->
           "Spot-spray affected zones with selective insecticide or soap; avoid blanket application. Track hotspots and verify reduction within 48-72 hours."
      [] severity = "High" ->
           "Sectional spray recommended (rows/blocks). Combine with biological control plan and adjust fertigation to reduce succulent growth."
      [] severity = "Severe" ->
           "Escalate: broad sectional spray + biologicals. Increase scouting frequency (daily) and consider rotating modes of action to prevent resistance."

generate_advice(aphid_count, leaf_area_cm2) ==
    LET density  == advice_density(aphid_count, leaf_area_cm2)
        severity == severity_of(density)
        advice   == <<"Density ~", FormatF2(density), " aphids/cm2. ",
                      advice_action(severity)>>
    IN  <<severity, advice>>

----------------------------------------------------------------------------
(* Orchestration *)

(* leaf_area_cm2 or 100.0: None and 0 are falsy *)
or_default(leaf_area_cm2) ==
    IF leaf_area_cm2 = None \/ leaf_area_cm2 = Some(0) THEN DEFAULT_AREA
    ELSE leaf_area_cm2[1]

(* the placeholder branch counts from the image size alone *)
select_count_real_model(img, demo_mode, manual_override, original_filename) ==
    IF demo_mode
    THEN count_aphids_demo(img, original_filename, manual_override)
    ELSE count_aphids_demo(img, None, None)

(* lines 95-99: both branches make the same call *)
select_count(img, demo_mode, manual_override, original_filename) ==
    IF demo_mode \/ ~USE_QWEN
    THEN count_aphids_demo(img, original_filename, manual_override)
    ELSE count_aphids_demo(img, original_filename, manual_override)

(* the floor is applied to the magnitude of the area *)
infer_density_abs(count, leaf_area_cm2) ==
    Divide(count, Max(Abs(or_default(leaf_area_cm2)), EPS))

(* line 102 *)
infer_density(count, leaf_area_cm2) ==
    Divide(count, Max(or_default(leaf_area_cm2), EPS))

(* the guard on the image path is dropped for the empty path *)
no_image_only_none(image_path) == image_path = None

(* line 81: not image_path *)
no_image(image_path) == ~TruthyStr(image_path)

(* the decode-failure result keeps a summary *)
decode_error_result_with_summary(err) ==
    [kind |-> "return", header |-> <<"Error opening image: ", err>>,
     summary |-> <<"Aphids counted: ", 0>>, count |-> 0, density |-> <<0, 1>>,
     advice |-> <<>>]

(* line 89 *)
decode_error_result(err) ==
    [kind |-> "return", header |-> <<"Error opening image: ", err>>,
     summary |-> <<>>, count |-> 0, density |-> <<0, 1>>, advice |-> <<>>]

(* infer: `opened` is what Image.open(image_path) followed by convert("RGB")
   yields, an image or the exception raised.  The result is the value
   returned or the exception that leaves the call, with the sequence of
   callees entered on the way. *)
infer(image_path, opened, leaf_area_cm2, demo_mode, manual_override, original_filename) ==
    IF no_image(image_path)
    THEN [calls |-> <<>>,
          out |-> [kind |-> "return", header |-> <<"No image uploaded.">>,
                   summary |-> <<>>, count |-> 0, density |-> <<0, 1>>,
                   advice |-> <<>>]]
    ELSE IF ~opened.ok
    THEN [calls |-> <<>>, out |-> decode_error_result(opened.err)]
    ELSE
      LET img      == [size |-> opened.size]
          filename == IF ~TruthyStr(original_filename)
                      THEN <<basename(image_path)>>
                      ELSE original_filename
          count    == select_count(img, demo_mode, manual_override, filename)
          sa       == generate_advice(count, or_default(leaf_area_cm2))
          density  == infer_density(count, leaf_area_cm2)
          header   == <<"PPG Pest Guard Advice - ", sa[1]>>
      IN  IF leaf_area_cm2 = None
          THEN (* format spec .1f applied to None *)
               [calls |-> <<"count_aphids_demo", "generate_advice">>,
                out |-> [kind |-> "raise", exc |-> "TypeError"]]
          ELSE [calls |-> <<"count_aphids_demo", "generate_advice">>,
                out |-> [kind |-> "return", header |-> header,
                         summary |-> <<"Aphids counted: ", count,
                                       " | Leaf area: ", FormatF1(leaf_area_cm2[1]),
                                       " cm2 | Density: ", FormatF2(density),
                                       " aphids/cm2">>,
                         count |-> count, density |-> density,
                         advice |-> sa[2]]]

----------------------------------------------------------------------------
(* Inputs *)

MaxSide == 3

MaxOverride == 2

MaxCount == 600

(* a float area given in tenths of a cm2 *)
Tenths(k) == k * (Scale \div 10)

Sides == {k * 256 : k \in 0..MaxSide} \cup {511, 513}

Images == {[size |-> <<w, h>>] : w \in Sides, h \in Sides}

Filenames ==
    {None, <<"">>, <<"RW S (24).jpg">>, <<"RW S (15).jpg">>, <<"RW_S_24.jpg">>,
     <<"uploads", "RW S (24).jpg">>, <<"RW S (24).jpg", "leaf.jpg">>,
     <<"RW S (24).jpg", "">>, <<"rw s (24).jpg">>, <<"leaf.jpg">>}

Overrides ==
    {None, Some(200)} \cup {Some(k) : k \in (0 - MaxOverride)..MaxOverride}

Counts == 0..MaxCount

Areas == {Tenths(k) : k \in {-3000, -10, -1, 0, 1, 10, 100, 500, 2999, 3000, 3001}}

ImagePaths ==
    {None, <<"">>, <<"gradio_tmp", "RW S (24).jpg">>, <<"gradio_tmp", "leaf.jpg">>}

Opened ==
    {[ok |-> TRUE, size |-> <<512, 512>>, err |-> ""],
     [ok |-> TRUE, size |-> <<1024, 768>>, err |-> ""],
     [ok |-> FALSE, size |-> <<0, 0>>, err |-> "cannot identify image file"],
     [ok |-> FALSE, size |-> <<0, 0>>, err |-> "No such file or directory"]}

LeafAreas == {None} \cup {Some(Tenths(k)) : k \in {-10, 0, 1, 10, 100, 500, 3000}}

InferFilenames ==
    {None, <<"">>, <<"RW S (15).jpg">>, <<"uploads", "RW S (24).jpg">>, <<"leaf.jpg">>}

----------------------------------------------------------------------------
(* The state is the call being served, its outcome, and the callees infer
   entered.  Calls are served one at a time and share nothing. *)

Init ==
    /\ call = [fn |-> "none"]
    /\ ret = None
    /\ invoked = <<>>

Call_count_aphids_demo ==
    /\ call.fn = "none"
    /\ \E img \in Images, f \in Filenames, m \in Overrides :
        /\ call' = [fn |-> "count_aphids_demo", img |-> img,
                    original_filename |-> f, manual_override |-> m]
        /\ ret' = count_aphids_demo(img, f, m)
        /\ invoked' = <<>>

Call_generate_advice ==
    /\ call.fn = "none"
    /\ \E c \in Counts, a \in Areas :
        /\ call' = [fn |-> "generate_advice", aphid_count |-> c,
                    leaf_area_cm2 |-> a]
        /\ ret' = generate_advice(c, a)
        /\ invoked' = <<>>

Call_infer ==
    /\ call.fn = "none"
    /\ \E p \in ImagePaths, o \in Opened, a \in LeafAreas, d \in BOOLEAN,
          m \in Overrides, f \in InferFilenames :
        LET r == infer(p, o, a, d, m, f) IN
        /\ call' = [fn |-> "infer", image_path |-> p, opened |-> o,
                    leaf_area_cm2 |-> a, demo_mode |-> d,
                    manual_override |-> m, original_filename |-> f]
        /\ ret' = r.out
        /\ invoked' = r.calls

(* the caller has consumed the outcome *)
Done ==
    /\ call.fn # "none"
    /\ call' = [fn |-> "none"]
    /\ ret' = None
    /\ invoked' = <<>>

Next ==
    \/ Call_count_aphids_demo
    \/ Call_generate_advice
    \/ Call_infer
    \/ Done

Spec == Init /\ [][Next]_vars

----------------------------------------------------------------------------
(* Properties of the counter *)

InCount == call.fn = "count_aphids_demo"

(* the name selects a table entry: it is present, non-empty, and its last
   component is a key *)
TableHit(f) == f # None /\ f # <<"">> /\ f[Len(f)] \in DOMAIN DEMO_COUNTS

(* C1: whenever a manual override is provided (0 included), the count is the
   override when it is >= 0 and 0 when it is negative, whatever the filename
   and the image size. *)
C1_OverrideWins ==
    (InCount /\ call.manual_override # None) =>
        LET m == call.manual_override[1] IN
        /\ (m >= 0 => ret = m)
        /\ (m < 0 => ret = 0)

C1_Witness ==
    /\ InCount
    /\ call.manual_override = Some(0)
    /\ call.original_filename = <<"RW S (24).jpg">>
    /\ call.img.size = <<768, 768>>
    /\ ret = 0

(* C2: with no override, a filename whose base name is a key of DEMO_COUNTS
   gives that entry's count whatever the image size; a 512x512 image named
   "RW S (24).jpg" gives 10. *)
C2_LookupHit ==
    (InCount /\ call.manual_override = None /\ TableHit(call.original_filename)) =>
        LET f == call.original_filename IN
        /\ ret = DEMO_COUNTS[f[Len(f)]]
        /\ (f[Len(f)] = "RW S (24).jpg" => ret = 10)

C2_Witness ==
    /\ InCount
    /\ call.manual_override = None
    /\ call.original_filename = <<"uploads", "RW S (24).jpg">>
    /\ call.img.size = <<512, 512>>
    /\ ret = 10

(* C3: with no override and a filename that is absent, empty or not in the
   table, the count is floor(w*h / 262144) and is >= 0. *)
C3_Fallback ==
    (InCount /\ call.manual_override = None /\ ~TableHit(call.original_filename)) =>
        /\ ret = (call.img.size[1] * call.img.size[2]) \div 262144
        /\ ret >= 0

C3_Witness ==
    /\ InCount
    /\ call.manual_override = None
    /\ call.original_filename = <<"RW S (24).jpg", "leaf.jpg">>
    /\ call.img.size = <<768, 768>>
    /\ ret = 2

----------------------------------------------------------------------------
(* Properties of the advisor *)

InAdvice == call.fn = "generate_advice"

(* the tier of count c on an area of t tenths of a cm2, from the table of
   the specification: for t > 0 the density is 10c/t; for t <= 0 the area is
   1e-6 cm2 and the density is 1000000c *)
TierOf(c, t) ==
    IF t > 0
    THEN IF 100 * c < t THEN "Low"
         ELSE IF 20 * c < t THEN "Moderate"
         ELSE IF 20 * c < 3 * t THEN "High"
         ELSE "Severe"
    ELSE IF c = 0 THEN "Low" ELSE "Severe"

(* the worked cases on an area of 300 cm2 *)
TierExamples ==
    (0 :> "Low") @@ (15 :> "Low") @@ (60 :> "Moderate") @@ (200 :> "High") @@
    (600 :> "Severe") @@ (30 :> "Moderate") @@ (150 :> "High") @@ (450 :> "Severe")

(* C4: the severity is Low iff density is in [0, 0.1), Moderate iff in
   [0.1, 0.5), High iff in [0.5, 1.5), Severe iff >= 1.5, with density =
   count / max(area, 1e-6); density exactly 0.1, 0.5, 1.5 gives Moderate,
   High, Severe. *)
C4_Tiers ==
    InAdvice =>
        LET c == call.aphid_count
            t == call.leaf_area_cm2 \div (Scale \div 10)
        IN  /\ ret[1] = TierOf(c, t)
            /\ (t = 3000 /\ c \in DOMAIN TierExamples => ret[1] = TierExamples[c])

C4_Witness ==
    /\ InAdvice
    /\ call.aphid_count = 30
    /\ call.leaf_area_cm2 = Tenths(3000)
    /\ ret[1] = "Moderate"

(* density of generate_advice: non-decreasing in count, non-increasing in
   area, zero and negative areas included *)
AdviceDensityMonotone ==
    InAdvice =>
        LET c == call.aphid_count
            a == call.leaf_area_cm2
        IN  /\ LeqQ(advice_density(c, a), advice_density(c + 1, a))
            /\ \A a2 \in Areas :
                 a2 >= a => LeqQ(advice_density(c, a2), advice_density(c, a))
            /\ ret[2][2] = FormatF2(advice_density(c, a))

----------------------------------------------------------------------------
(* Properties of infer *)

InInfer == call.fn = "infer"

(* Image.open is reached and yields an image *)
Decoded == InInfer /\ no_image(call.image_path) = FALSE /\ call.opened.ok

(* the leaf area the specification gives the call: the supplied one, or 100.0
   when it is absent or zero, floored at 1e-6 *)
EffectiveArea(a) ==
    LET A == IF a = None THEN DEFAULT_AREA
             ELSE IF a[1] = 0 THEN DEFAULT_AREA ELSE a[1]
    IN  IF A < EPS THEN EPS ELSE A

(* C5: every call whose image decodes returns a result, and its density is
   count / max(A, 1e-6), A the leaf area or 100.0 when absent or zero. *)
C5_DensityInvariant ==
    Decoded =>
        /\ ret.kind = "return"
        /\ ret.density = Rat(ret.count * Scale, EffectiveArea(call.leaf_area_cm2))

(* C6: with no image (path null or empty) the call returns count 0, density
   0.0, empty advice, empty summary and a non-empty header, and enters
   neither the counter nor the advisor. *)
C6_NoImage ==
    (InInfer /\ (call.image_path = None \/ call.image_path = <<"">>)) =>
        /\ ret.kind = "return"
        /\ ret.count = 0
        /\ ret.density = <<0, 1>>
        /\ Len(ret.advice) = 0
        /\ Len(ret.summary) = 0
        /\ Len(ret.header) > 0
        /\ invoked = <<>>

C6_Witness ==
    /\ InInfer
    /\ call.image_path = <<"">>
    /\ call.opened.ok
    /\ call.leaf_area_cm2 = None
    /\ call.manual_override = Some(200)
    /\ ret.header = <<"No image uploaded.">>

(* C7: when opening the image fails the call returns normally; the header
   carries the error description, count is 0, density 0.0, summary and
   advice empty, whatever the other arguments. *)
C7_DecodeFailure ==
    (InInfer /\ call.image_path # None /\ call.image_path # <<"">>
       /\ ~call.opened.ok) =>
        /\ ret.kind = "return"
        /\ Len(ret.header) = 2
        /\ ret.header[2] = call.opened.err
        /\ ret.count = 0
        /\ ret.density = <<0, 1>>
        /\ Len(ret.summary) = 0
        /\ Len(ret.advice) = 0

C7_Witness ==
    /\ InInfer
    /\ call.image_path = <<"gradio_tmp", "leaf.jpg">>
    /\ call.opened.err = "cannot identify image file"
    /\ call.leaf_area_cm2 = None
    /\ call.manual_override = Some(200)
    /\ ret.kind = "return"

(* C8: the call with demo_mode true and the call with demo_mode false, on
   the same other arguments, have the same outcome. *)
C8_DemoModeIrrelevant ==
    InInfer =>
        LET other == infer(call.image_path, call.opened, call.leaf_area_cm2,
                           ~call.demo_mode, call.manual_override,
                           call.original_filename)
        IN  ret = other.out /\ invoked = other.calls

C8_Witness ==
    /\ Decoded
    /\ call.demo_mode = FALSE
    /\ call.manual_override = Some(200)
    /\ call.original_filename = <<"RW S (15).jpg">>
    /\ ret.kind = "return"
    /\ ret.count = 200


(* a call of infer that returned a result computed from a decoded image *)
Succeeded == Decoded /\ ret.kind = "return"

(* density returned by infer: non-decreasing in count *)
InferDensityMonotoneInCount ==
    Succeeded =>
        LeqQ(ret.density, infer_density(ret.count + 1, call.leaf_area_cm2))

(* density returned by infer against the density of the same count on every
   leaf area of `others` that is at least as large *)
InferDensityMonotoneInArea(others) ==
    Succeeded =>
        \A a2 \in others :
            a2[1] >= call.leaf_area_cm2[1] =>
                LeqQ(infer_density(ret.count, a2), ret.density)

SuppliedAreas == LeafAreas \ {None}

(* C9 as stated: the density of generate_advice and of infer is non-
   decreasing in count for every fixed leaf area and non-increasing in leaf
   area for every fixed count, zero and negative areas included. *)
C9_Original ==
    /\ AdviceDensityMonotone
    /\ InferDensityMonotoneInCount
    /\ InferDensityMonotoneInArea(SuppliedAreas)

(* C9 amended: the density of generate_advice is monotone as stated over all
   areas; the density infer returns is non-decreasing in count for every
   leaf area and non-increasing in leaf area over the non-zero leaf areas; a
   zero leaf area gives count / 100. *)
C9_Monotone ==
    /\ AdviceDensityMonotone
    /\ InferDensityMonotoneInCount
    /\ (Succeeded /\ call.leaf_area_cm2 # Some(0)
          => InferDensityMonotoneInArea(SuppliedAreas \ {Some(0)}))
    /\ (Succeeded /\ call.leaf_area_cm2 = Some(0)
          => ret.density = Rat(ret.count, 100))

C9_Witness ==
    /\ Succeeded
    /\ call.leaf_area_cm2 = Some(Tenths(-10))
    /\ ret.count = 10
    /\ ret.density = <<10 * Scale, 1>>

(* C10: in every successful result the leaf area printed in the summary is
   the area the density of that summary was divided by. *)
C10_SummaryArea ==
    Succeeded =>
        ret.summary[4] = FormatF1(EffectiveArea(call.leaf_area_cm2))

====
